---- MODULE Spec2Model ----
(***************************************************************************)
(* Model of pkg/serve/serve.go: publishing image manifests, config blobs   *)
(* and layer blobs into an object store (Storage.writeBlob, WriteObject,   *)
(* WriteImage, ServeManifest, ServeIndex) and answering with HEAD headers  *)
(* or a redirect (Blob).                                                   *)
(***************************************************************************)
EXTENDS Integers, Sequences, FiniteSets, TLC

(* ------------------------------ bounds --------------------------------- *)
\* Number of failures (store, close or image-model errors) injected per run.
MaxFaults == 2
\* Number of failures injected in the runs that read the store back.
ReadFaults == 1

\* Call slots: calls that follow one another use one slot, two calls that
\* run concurrently use two.
Sequential == {1}
Concurrent == {1, 2}

(* --------------------------- program constants ------------------------- *)
metaContentLength == "Content-Length"
metaContentType == "Content-Type"
metaDockerContentDigest == "Docker-Content-Digest"
StatusSeeOther == 303
MethodHead == "HEAD"
MethodGet == "GET"
DefaultEndpoint == "oss-cn-beijing.aliyuncs.com"
DefaultBucket == "nydus-demo"
ConfigContentType == "application/json"

(* ------------------- the image model (v1.Image, v1.ImageIndex) --------- *)
\* v1.Hash of a byte string: algorithm and hex; distinct contents have
\* distinct hashes.
Hash(bytes) == [Algorithm |-> "sha256", Hex |-> "x" \o bytes]

\* v1.Hash.String()
HashString(h) == h.Algorithm \o ":" \o h.Hex

LayerMT == "application/vnd.docker.image.rootfs.diff.tar.gzip"
ManifestMT == "application/vnd.docker.distribution.manifest.v2+json"
IndexMT == "application/vnd.docker.distribution.manifest.list.v2+json"

\* A layer is its compressed bytes; an image is config bytes, layers and
\* manifest bytes.  ImgD repeats one layer, ImgA and ImgD share a layer.
ImgA == [config |-> "cfgA", layers |-> <<"l1">>, manifest |-> "manA"]
ImgB == [config |-> "cfgB", layers |-> <<"l2", "l3">>, manifest |-> "manB"]
ImgD == [config |-> "cfgD", layers |-> <<"l1", "l1">>, manifest |-> "manD!"]

\* An index: the images of its manifest list, and its manifest bytes.
IdxX == [images |-> <<ImgA, ImgB>>, manifest |-> "manX"]

\* An image that shares a layer with ImgA, and an index of the two.
ImgE == [config |-> "cfgE", layers |-> <<"l1", "l4">>, manifest |-> "manE"]
IdxS == [images |-> <<ImgA, ImgE>>, manifest |-> "manS"]

\* The inputs callers pass.
Images == {ImgA, ImgB}
Indexes == {IdxX}
Alsos == {<< >>, <<"latest", "stable">>}
Methods == {MethodGet, MethodHead}
ObjectNames == {HashString(Hash("manA"))}
ObjectContents == {"junk"}

\* The wider inputs of the runs without failures: an image that repeats a
\* layer, an alias given twice, an alias that is a digest string.
PairImages == {ImgA, ImgB, ImgD}
PairAlsos == {<< >>, <<"latest">>, <<"latest", "stable">>, <<"latest", "latest">>,
              <<HashString(Hash("cfgA"))>>}

\* The index scenarios: images of one and two layers, published as "latest".
ScenarioIndexes == {IdxX, IdxS}
ScenarioAlsos == {<<"latest">>}

\* The names BlobExists is asked for: every digest string of the scenarios,
\* the alias, and a name nothing is written under.
ExistsNames ==
  {HashString(Hash(b)) :
     b \in UNION {{idx.manifest} \cup
                   UNION {{idx.images[s].config, idx.images[s].manifest}
                            \cup {idx.images[s].layers[i] :
                                    i \in 1..Len(idx.images[s].layers)} :
                          s \in 1..Len(idx.images)} : idx \in ScenarioIndexes}}
    \cup {"latest", "missing"}

(* ------------------------------- the store ----------------------------- *)
\* fmt.Sprintf("blobs/%s", name)
BlobKey(name) == "blobs/" \o name

\* An object as PutObject stores it: bytes, Content-Type and user metadata
\* (header name -> list of values, as GetObjectDetailedMeta returns them).
BlobObject(bytes, h, contentType) ==
  [bytes |-> bytes, contentType |-> contentType,
   metaType |-> <<contentType>>, metaDigest |-> <<HashString(h)>>]

\* WriteObject passes no options: no user metadata, the store's default type.
PlainObject(bytes) ==
  [bytes |-> bytes, contentType |-> "application/octet-stream",
   metaType |-> << >>, metaDigest |-> << >>]

\* Mutant of PutObject: an existing object is appended to, not replaced.
PutObjectAppend(st, key, obj) ==
  [k \in (DOMAIN st) \cup {key} |->
     IF k # key THEN st[k]
     ELSE IF key \in DOMAIN st
          THEN [obj EXCEPT !.bytes = st[key].bytes \o obj.bytes]
          ELSE obj]

\* Mutant of PutObject: overwriting replaces the bytes and keeps the metadata
\* of the object that was there.
PutObjectKeepMeta(st, key, obj) ==
  [k \in (DOMAIN st) \cup {key} |->
     IF k # key THEN st[k]
     ELSE IF key \in DOMAIN st
          THEN [st[key] EXCEPT !.bytes = obj.bytes]
          ELSE obj]

\* bucket.PutObject(key, ...): creates or overwrites the object at key.
PutObject(st, key, obj) ==
  [k \in (DOMAIN st) \cup {key} |-> IF k = key THEN obj ELSE st[k]]

EmptyStore == [k \in {} |-> PlainObject("")]

(* ------------------------------ Blob ----------------------------------- *)
\* Mutant of BlobURL: the redirect leaves out the blobs/ prefix of the key.
BlobURLNoPrefix(b, e, name) == "https://" \o b \o "." \o e \o "/" \o name

\* fmt.Sprintf("https://%s.%s/blobs/%s", bucket, endpoint, name)
BlobURL(b, e, name) == "https://" \o b \o "." \o e \o "/blobs/" \o name

(* ------------------------------ errors --------------------------------- *)
\* A nil error, and the error a call site returns: task names the call
\* site, idx the layer or alias it belongs to, kind what failed there.
Nil == [task |-> "nil", idx |-> 0, kind |-> "nil"]
Err(task, idx, kind) == [task |-> task, idx |-> idx, kind |-> kind]

\* Mutants of GroupErr: the last task's result wins; errors are dropped.
GroupErrLast(gerr, err) == err
GroupErrDropped(gerr, err) == gerr

\* Mutant of GroupErr: the error of an alias task is not kept.
GroupErrNoAlias(gerr, err) ==
  IF gerr = Nil /\ err # Nil /\ err.task # "alias" THEN err ELSE gerr

\* errgroup.Group: g.errOnce.Do(func() { g.err = err }) for a task that
\* returned err; only the first non-nil error is kept.
GroupErr(gerr, err) == IF gerr = Nil /\ err # Nil THEN err ELSE gerr

\* Mutant of Finished: Wait returns as soon as one task has failed.
FinishedAtFirstError(tasks) ==
  \/ \A i \in 1..Len(tasks) : tasks[i] \notin {"none", "inflight"}
  \/ \E i \in 1..Len(tasks) : tasks[i] \notin {"none", "inflight", "ok"}

\* Mutant of Finished: Wait returns without waiting.
FinishedNoWait(tasks) == TRUE

\* Mutant of Launch: only the first task is started.
LaunchFirst(tasks) ==
  [i \in 1..Len(tasks) |-> IF i = 1 THEN "inflight" ELSE "none"]

\* Task states: "none" (not launched), "inflight", "ok", or the kind of its
\* failure.  Finished: g.Wait() returns once every task has returned.
Finished(tasks) == \A i \in 1..Len(tasks) : tasks[i] \notin {"none", "inflight"}
Launch(tasks) == [i \in 1..Len(tasks) |-> "inflight"]

(* ------------------------------- state --------------------------------- *)
VARIABLES
  bucket,    \* package variable bucket
  endpoint,  \* package variable endpoint
  client,    \* TRUE once NewStorage has returned a *Storage
  store,     \* the bucket: object key -> object
  faults,    \* failures the environment may still inject
  call,      \* per call: operation, arguments, position, result, response
  wi         \* per call: the WriteImage executions it runs

vars == <<bucket, endpoint, client, store, faults, call, wi>>

\* The http.ResponseWriter before anything is written to it.
NoResponse == [code |-> 0, headers |-> {}, body |-> FALSE]

NoContent == [manifest |-> ""]

\* The zero v1.Hash and the zero v1.Descriptor.
ZeroHash == [Algorithm |-> "", Hex |-> ""]
NoDescriptor == [Digest |-> ZeroHash, MediaType |-> "", Size |-> 0]

IdleCall ==
  [op |-> "idle", pc |-> "idle", content |-> NoContent, also |-> << >>, method |-> "",
   man |-> "none", alias |-> << >>, gerr |-> Nil, ret |-> Nil,
   resp |-> NoResponse, desc |-> NoDescriptor]

\* One execution of WriteImage: its arguments, its position, the state of
\* each store write it makes, its errgroup's error and its return value.
NewImageWrite(img, also) ==
  [img |-> img, also |-> also, pc |-> "start", cfg |-> "none",
   layer |-> [i \in 1..Len(img.layers) |-> "none"], man |-> "none",
   alias |-> [i \in 1..Len(also) |-> "none"], gerr |-> Nil, ret |-> Nil]

\* Outcomes of a step: success, or one of the failures fs while the
\* environment still has failures to inject.
Outcomes(fs) == {"ok"} \cup (IF faults > 0 THEN fs ELSE {})
Spend(o) == IF o = "ok" THEN faults ELSE faults - 1

\* os.Getenv("BUCKET") and os.Getenv("ENDPOINT"): the process runs with
\* BUCKET unset and ENDPOINT set.
Envs == {[BUCKET |-> "", ENDPOINT |-> "oss.example.com"]}

Init ==
  /\ \E env \in Envs : bucket = env.BUCKET /\ endpoint = env.ENDPOINT
  /\ client = FALSE
  /\ store = EmptyStore
  /\ faults = MaxFaults
  /\ call = [c \in Sequential |-> IdleCall]
  /\ wi = [c \in Sequential |-> << >>]

(* ----------------------------- NewStorage ------------------------------ *)
NewStorage ==
  /\ endpoint' = IF endpoint = "" THEN DefaultEndpoint ELSE endpoint
  /\ bucket' = IF bucket = "" THEN DefaultBucket ELSE bucket
  /\ \E ok \in BOOLEAN : client' = (client \/ ok)
  /\ UNCHANGED <<store, faults, call, wi>>

(* ------------------------------ BlobExists ----------------------------- *)
\* bucket.GetObjectDetailedMeta(key): the headers of the object, each a list
\* of values.
GetObjectDetailedMeta(st, key) ==
  [ContentLength |-> <<ToString(Len(st[key].bytes))>>,
   ContentType |-> <<st[key].contentType>>,
   MetaDigest |-> st[key].metaDigest]

\* v1.NewHash(s): "algorithm:hex" split at its colon; ok is FALSE for a string
\* of another form.
NewHash(str) ==
  LET colons == {i \in 1..Len(str) : SubSeq(str, i, i) = ":"}
      at == CHOOSE i \in colons : TRUE
  IN IF Cardinality(colons) # 1 THEN [ok |-> FALSE, h |-> ZeroHash]
     ELSE IF SubSeq(str, 1, at - 1) # "sha256" \/ at = Len(str)
          THEN [ok |-> FALSE, h |-> ZeroHash]
     ELSE [ok |-> TRUE,
           h |-> [Algorithm |-> SubSeq(str, 1, at - 1),
                  Hex |-> SubSeq(str, at + 1, Len(str))]]

\* strconv.ParseInt(s, 10, 64) of a string of decimal digits.
DigitValue(ch) ==
  CASE ch = "0" -> 0 [] ch = "1" -> 1 [] ch = "2" -> 2 [] ch = "3" -> 3
    [] ch = "4" -> 4 [] ch = "5" -> 5 [] ch = "6" -> 6 [] ch = "7" -> 7
    [] ch = "8" -> 8 [] ch = "9" -> 9 [] OTHER -> -1

RECURSIVE ParseDigits(_, _)
ParseDigits(str, n) ==
  IF n = 0 THEN 0
  ELSE 10 * ParseDigits(str, n - 1) + DigitValue(SubSeq(str, n, n))

ParseInt(str) ==
  IF str = "" \/ \E i \in 1..Len(str) : DigitValue(SubSeq(str, i, i)) < 0
  THEN [ok |-> FALSE, n |-> 0]
  ELSE [ok |-> TRUE, n |-> ParseDigits(str, Len(str))]

\* Mutant of BlobExistsResult: the size is left at zero.
BlobExistsNoSize(st, name, o) ==
  IF o # "ok" \/ BlobKey(name) \notin DOMAIN st
  THEN [desc |-> NoDescriptor, err |-> Err("GetObjectDetailedMeta", 0,
                                           IF o # "ok" THEN o ELSE "notfound")]
  ELSE LET meta == GetObjectDetailedMeta(st, BlobKey(name))
           h == IF Len(meta.MetaDigest) = 1 THEN NewHash(meta.MetaDigest[1])
                ELSE [ok |-> TRUE, h |-> ZeroHash]
       IN IF ~h.ok THEN [desc |-> NoDescriptor, err |-> Err("NewHash", 0, "parse")]
          ELSE [desc |-> [Digest |-> h.h, MediaType |-> meta.ContentType[1],
                          Size |-> 0],
                err |-> Nil]

\* What BlobExists(ctx, name) returns on store st when the store answers with
\* outcome o ("ok", or "store": Bucket or GetObjectDetailedMeta failed): the
\* descriptor parsed from the object's headers, or an error.
BlobExistsResult(st, name, o) ==
  IF o # "ok" \/ BlobKey(name) \notin DOMAIN st
  THEN [desc |-> NoDescriptor, err |-> Err("GetObjectDetailedMeta", 0,
                                           IF o # "ok" THEN o ELSE "notfound")]
  ELSE LET meta == GetObjectDetailedMeta(st, BlobKey(name))
           h == IF Len(meta.MetaDigest) = 1 THEN NewHash(meta.MetaDigest[1])
                ELSE [ok |-> TRUE, h |-> ZeroHash]
           size == IF Len(meta.ContentLength) = 1 THEN ParseInt(meta.ContentLength[1])
                   ELSE [ok |-> TRUE, n |-> 0]
       IN IF ~h.ok THEN [desc |-> NoDescriptor, err |-> Err("NewHash", 0, "parse")]
          ELSE IF ~size.ok
               THEN [desc |-> NoDescriptor, err |-> Err("ParseInt", 0, "parse")]
          ELSE [desc |-> [Digest |-> h.h, MediaType |-> meta.ContentType[1],
                          Size |-> size.n],
                err |-> Nil]

\* A caller calls BlobExists(ctx, name), name drawn from ExistsNames.
BlobExists(c) ==
  /\ client
  /\ call[c].op = "idle"
  /\ \E name \in ExistsNames, o \in Outcomes({"store"}) :
       LET res == BlobExistsResult(store, name, o)
       IN /\ call' = [call EXCEPT ![c] =
                        [IdleCall EXCEPT !.op = "BlobExists", !.pc = "done",
                           !.content = [manifest |-> "", name |-> name],
                           !.ret = res.err, !.desc = res.desc]]
          /\ faults' = Spend(o)
  /\ UNCHANGED <<bucket, endpoint, client, store, wi>>

(* ----------------------------- WriteObject ----------------------------- *)
\* WriteObject(ctx, name, contents) is one store operation; it runs at any
\* moment, also in the middle of a publishing call.  Its error goes to its
\* caller and no state keeps it.
WriteObject ==
  /\ client
  /\ \E name \in ObjectNames, contents \in ObjectContents,
        o \in Outcomes({"store"}) :
       /\ store' = IF o = "ok"
                   THEN PutObject(store, BlobKey(name), PlainObject(contents))
                   ELSE store
       /\ faults' = Spend(o)
  /\ UNCHANGED <<bucket, endpoint, client, call, wi>>

(* ------------------------------ writeBlob ------------------------------ *)
\* Mutant of writeBlob: the object is stored under its digest, not its name.
writeBlobByDigest(st, name, h, bytes, contentType, o) ==
  IF o \in {"ok", "close"}
  THEN PutObject(st, BlobKey(HashString(h)), BlobObject(bytes, h, contentType))
  ELSE st

\* The store after writeBlob(ctx, name, h, rc, contentType) ended with
\* outcome o: "ok", "store" (Bucket or PutObject failed: nothing written) or
\* "close" (PutObject succeeded, rc.Close failed).  Every other outcome is a
\* failure before writeBlob was called.
writeBlob(st, name, h, bytes, contentType, o) ==
  IF o \in {"ok", "close"}
  THEN PutObject(st, BlobKey(name), BlobObject(bytes, h, contentType))
  ELSE st

(* ------------------------------ WriteImage ----------------------------- *)
\* Mutant of CallAfter: the error of an image task of ServeIndex is lost.
CallAfterLost(c, inst) ==
  IF inst.pc = "done" /\ call[c].op = "WriteImage"
  THEN [call[c] EXCEPT !.pc = "done", !.ret = inst.ret]
  ELSE call[c]

\* The call record once execution s of call c has become inst: a returned
\* WriteImage ends a direct WriteImage call, and is a finished task of the
\* errgroup of ServeIndex.
CallAfter(c, inst) ==
  IF inst.pc # "done" THEN call[c]
  ELSE IF call[c].op = "WriteImage"
       THEN [call[c] EXCEPT !.pc = "done", !.ret = inst.ret]
  ELSE IF call[c].op = "ServeIndex"
       THEN [call[c] EXCEPT !.gerr = GroupErr(call[c].gerr, inst.ret)]
  ELSE call[c]

SetImageWrite(c, s, inst) ==
  /\ wi' = [wi EXCEPT ![c][s] = inst]
  /\ call' = [call EXCEPT ![c] = CallAfter(c, inst)]

\* Mutant of Returned: the error of the config write is dropped and the layer
\* writes are launched.
ReturnedContinue(inst, err) ==
  IF err.task = "config"
  THEN [inst EXCEPT !.pc = "layers", !.layer = Launch(inst.layer)]
  ELSE [inst EXCEPT !.pc = "done", !.ret = err]

\* Mutant of Returned: after a failed manifest write the alias writes are
\* launched all the same.
ReturnedAliases(inst, err) ==
  IF err.task = "manifest"
  THEN [inst EXCEPT !.pc = "aliases", !.alias = Launch(inst.alias)]
  ELSE [inst EXCEPT !.pc = "done", !.ret = err]

\* return err: WriteImage ends with the error err.
Returned(inst, err) == [inst EXCEPT !.pc = "done", !.ret = err]

\* ServeIndex's task up to WriteImage's first store write: idx.Image (the
\* image comes from an index), ConfigName, RawConfigFile, the config
\* writeBlob, then Layers and the launch of one task per layer.
WI_Config(c, s) ==
  /\ s \in 1..Len(wi[c])
  /\ wi[c][s].pc = "start"
  /\ LET inst == wi[c][s]
         img == inst.img
         ch == Hash(img.config)
     IN \E o \in Outcomes({"ConfigName", "RawConfigFile", "store", "Layers"}
                          \cup (IF call[c].op = "ServeIndex"
                                THEN {"Image"} ELSE {})) :
          /\ store' = IF o \in {"ok", "Layers"}
                      THEN writeBlob(store, HashString(ch), ch, img.config,
                                     ConfigContentType, "ok")
                      ELSE store
          /\ SetImageWrite(c, s,
               CASE o = "ok" ->
                      [inst EXCEPT !.cfg = "ok", !.pc = "layers",
                                   !.layer = Launch(inst.layer)]
                 [] o = "store" ->
                      Returned([inst EXCEPT !.cfg = "store"],
                               Err("config", 0, "store"))
                 [] o = "Layers" ->
                      Returned([inst EXCEPT !.cfg = "ok"], Err("Layers", 0, "model"))
                 [] OTHER -> Returned(inst, Err(o, 0, "model")))
          /\ faults' = Spend(o)
  /\ UNCHANGED <<bucket, endpoint, client>>

\* The task of layer i: Compressed, Digest, MediaType, writeBlob.
WI_Layer(c, s, i) ==
  /\ s \in 1..Len(wi[c])
  /\ wi[c][s].pc = "layers"
  /\ i \in 1..Len(wi[c][s].layer)
  /\ wi[c][s].layer[i] = "inflight"
  /\ LET inst == wi[c][s]
         bytes == inst.img.layers[i]
         lh == Hash(bytes)
     IN \E o \in Outcomes({"Compressed", "Digest", "MediaType", "store", "close"}) :
          /\ store' = writeBlob(store, HashString(lh), lh, bytes, LayerMT, o)
          /\ SetImageWrite(c, s,
               [inst EXCEPT !.layer[i] = o,
                            !.gerr = GroupErr(inst.gerr,
                                       IF o = "ok" THEN Nil ELSE Err("layer", i, o))])
          /\ faults' = Spend(o)
  /\ UNCHANGED <<bucket, endpoint, client>>

\* g.Wait() on the layer tasks, then RawManifest, MediaType, Digest, the
\* manifest writeBlob and the launch of one task per alias.
WI_Manifest(c, s) ==
  /\ s \in 1..Len(wi[c])
  /\ wi[c][s].pc = "layers"
  /\ Finished(wi[c][s].layer)
  /\ LET inst == wi[c][s]
         img == inst.img
         digest == Hash(img.manifest)
     IN IF inst.gerr # Nil
        THEN /\ SetImageWrite(c, s, Returned(inst, inst.gerr))
             /\ UNCHANGED <<store, faults>>
        ELSE \E o \in Outcomes({"RawManifest", "MediaType", "Digest", "store"}) :
               /\ store' = writeBlob(store, HashString(digest), digest,
                                     img.manifest, ManifestMT, o)
               /\ SetImageWrite(c, s,
                    CASE o = "ok" ->
                           [inst EXCEPT !.man = "ok", !.pc = "aliases",
                                        !.alias = Launch(inst.alias)]
                      [] o = "store" ->
                           Returned([inst EXCEPT !.man = "store"],
                                    Err("manifest", 0, "store"))
                      [] OTHER -> Returned(inst, Err(o, 0, "model")))
               /\ faults' = Spend(o)
  /\ UNCHANGED <<bucket, endpoint, client>>

\* The task of alias i: writeBlob of the manifest under the alias name.
WI_Alias(c, s, i) ==
  /\ s \in 1..Len(wi[c])
  /\ wi[c][s].pc = "aliases"
  /\ i \in 1..Len(wi[c][s].alias)
  /\ wi[c][s].alias[i] = "inflight"
  /\ LET inst == wi[c][s]
         img == inst.img
         digest == Hash(img.manifest)
     IN \E o \in Outcomes({"store"}) :
          /\ store' = writeBlob(store, inst.also[i], digest, img.manifest,
                                ManifestMT, o)
          /\ SetImageWrite(c, s,
               [inst EXCEPT !.alias[i] = o,
                            !.gerr = GroupErr(inst.gerr,
                                       IF o = "ok" THEN Nil ELSE Err("alias", i, o))])
          /\ faults' = Spend(o)
  /\ UNCHANGED <<bucket, endpoint, client>>

\* return g.Wait() on the alias tasks.
WI_Return(c, s) ==
  /\ s \in 1..Len(wi[c])
  /\ wi[c][s].pc = "aliases"
  /\ Finished(wi[c][s].alias)
  /\ SetImageWrite(c, s, Returned(wi[c][s], wi[c][s].gerr))
  /\ UNCHANGED <<bucket, endpoint, client, store, faults>>

\* A caller calls WriteImage(ctx, img, also...), its arguments drawn from
\* imgs and alsos.
WriteImage(c, imgs, alsos) ==
  /\ client
  /\ call[c].op = "idle"
  /\ \E img \in imgs, also \in alsos :
       /\ call' = [call EXCEPT ![c] =
                     [IdleCall EXCEPT !.op = "WriteImage", !.pc = "image",
                        !.content = img, !.also = also]]
       /\ wi' = [wi EXCEPT ![c] = <<NewImageWrite(img, also)>>]
  /\ UNCHANGED <<bucket, endpoint, client, store, faults>>

(* ------------------------------ responses ------------------------------ *)
\* http.Redirect(w, r, url, code): the Location header, the status code and,
\* for GET, a Content-Type and a short HTML body.
Redirect(resp, method, url, code) ==
  [code |-> code,
   headers |-> resp.headers \cup {<<"Location", url>>}
                 \cup (IF method \in {MethodGet, MethodHead}
                       THEN {<<metaContentType, "text/html; charset=utf-8">>}
                       ELSE {}),
   body |-> (method = MethodGet)]

\* Blob(w, r, name)
Blob(resp, method, name) ==
  Redirect(resp, method, BlobURL(bucket, endpoint, name), StatusSeeOther)

\* The three w.Header().Set calls of a HEAD request.
HeadResponse(resp, digest, mt, size) ==
  [resp EXCEPT !.headers =
     {<<metaDockerContentDigest, HashString(digest)>>, <<metaContentType, mt>>,
      <<metaContentLength, ToString(size)>>}]

\* The response of ServeManifest and ServeIndex once everything is written.
Respond(resp, method, bytes, mt) ==
  IF method = MethodHead
  THEN HeadResponse(resp, Hash(bytes), mt, Len(bytes))
  ELSE Blob(resp, method, HashString(Hash(bytes)))

\* Mutant of Responded: the digest header is set before Size is called.
RespondedEarly(cl, method, mt, o) ==
  IF o = "ok"
  THEN [cl EXCEPT !.pc = "done", !.method = method,
                  !.resp = Respond(cl.resp, method, cl.content.manifest, mt)]
  ELSE [cl EXCEPT !.pc = "done", !.method = method, !.ret = Err(o, 0, "model"),
                  !.resp.headers = {<<metaDockerContentDigest,
                                      HashString(Hash(cl.content.manifest))>>}]

\* The call once its last image-model calls ended with outcome o for a request
\* of the given method: an error is returned before any header is set.
Responded(cl, method, mt, o) ==
  IF o = "ok"
  THEN [cl EXCEPT !.pc = "done", !.method = method,
                  !.resp = Respond(cl.resp, method, cl.content.manifest, mt)]
  ELSE [cl EXCEPT !.pc = "done", !.method = method, !.ret = Err(o, 0, "model")]

(* ----------------------------- ServeManifest --------------------------- *)
\* ServeManifest up to its call of WriteImage(ctx, img, also...).
ServeManifest(c) ==
  /\ client
  /\ call[c].op = "idle"
  /\ \E img \in Images, also \in Alsos :
       /\ call' = [call EXCEPT ![c] =
                     [IdleCall EXCEPT !.op = "ServeManifest", !.pc = "image",
                        !.content = img, !.also = also]]
       /\ wi' = [wi EXCEPT ![c] = <<NewImageWrite(img, also)>>]
  /\ UNCHANGED <<bucket, endpoint, client, store, faults>>

\* ServeManifest after WriteImage returned: Digest, then the HEAD headers
\* (MediaType, Size) or the redirect.  r.Method is read only here, so the
\* request's method is drawn here.
SM_Respond(c) ==
  /\ call[c].op = "ServeManifest"
  /\ call[c].pc = "image"
  /\ wi[c][1].pc = "done"
  /\ LET cl == call[c]
     IN IF wi[c][1].ret # Nil
        THEN /\ call' = [call EXCEPT ![c].pc = "done", ![c].ret = wi[c][1].ret]
             /\ UNCHANGED faults
        ELSE \E method \in Methods :
             \E o \in Outcomes({"Digest"} \cup (IF method = MethodHead
                                               THEN {"MediaType", "Size"}
                                               ELSE {})) :
               /\ call' = [call EXCEPT ![c] = Responded(cl, method, ManifestMT, o)]
               /\ faults' = Spend(o)
  /\ UNCHANGED <<bucket, endpoint, client, store, wi>>

(* ------------------------------ ServeIndex ----------------------------- *)
\* Mutant of IndexImageWrites: the loop variable is not copied (no m := m), so
\* every task writes the last image of the index.
IndexImageWritesLast(idx, also) ==
  [s \in 1..Len(idx.images) |->
     NewImageWrite(idx.images[Len(idx.images)], << >>)]

\* Mutant of IndexImageWrites: the aliases are passed on to WriteImage.
IndexImageWritesAlso(idx, also) ==
  [s \in 1..Len(idx.images) |-> NewImageWrite(idx.images[s], also)]

\* The WriteImage(ctx, img) executions ServeIndex launches, one per image of
\* the index manifest, none of them given the aliases.
IndexImageWrites(idx, also) ==
  [s \in 1..Len(idx.images) |-> NewImageWrite(idx.images[s], << >>)]

\* ServeIndex up to the launch of one task per image of the index manifest,
\* its arguments drawn from idxs and alsos.
ServeIndex(c, idxs, alsos) ==
  /\ client
  /\ call[c].op = "idle"
  /\ \E idx \in idxs, also \in alsos, o \in Outcomes({"IndexManifest"}) :
       LET cl == [IdleCall EXCEPT !.op = "ServeIndex", !.content = idx,
                                  !.also = also,
                                  !.alias = [i \in 1..Len(also) |-> "none"]]
       IN /\ IF o = "ok"
             THEN /\ call' = [call EXCEPT ![c] = [cl EXCEPT !.pc = "images"]]
                  /\ wi' = [wi EXCEPT ![c] = IndexImageWrites(idx, also)]
             ELSE /\ call' = [call EXCEPT ![c] =
                                [cl EXCEPT !.pc = "done",
                                           !.ret = Err(o, 0, "model")]]
                  /\ wi' = wi
          /\ faults' = Spend(o)
  /\ UNCHANGED <<bucket, endpoint, client, store>>

\* g.Wait() on the image tasks, then RawManifest, MediaType, Digest, the
\* index manifest writeBlob and the launch of one task per alias.
SI_Manifest(c) ==
  /\ call[c].op = "ServeIndex"
  /\ call[c].pc = "images"
  /\ \A s \in 1..Len(wi[c]) : wi[c][s].pc = "done"
  /\ LET cl == call[c]
         digest == Hash(cl.content.manifest)
     IN IF cl.gerr # Nil
        THEN /\ call' = [call EXCEPT ![c].pc = "done", ![c].ret = cl.gerr]
             /\ UNCHANGED <<store, faults>>
        ELSE \E o \in Outcomes({"RawManifest", "MediaType", "Digest", "store"}) :
               /\ store' = writeBlob(store, HashString(digest), digest,
                                     cl.content.manifest, IndexMT, o)
               /\ call' = [call EXCEPT ![c] =
                    CASE o = "ok" ->
                           [cl EXCEPT !.man = "ok", !.pc = "aliases",
                                      !.alias = Launch(cl.alias)]
                      [] o = "store" ->
                           [cl EXCEPT !.man = "store", !.pc = "done",
                                      !.ret = Err("manifest", 0, "store")]
                      [] OTHER ->
                           [cl EXCEPT !.pc = "done", !.ret = Err(o, 0, "model")]]
               /\ faults' = Spend(o)
  /\ UNCHANGED <<bucket, endpoint, client, wi>>

\* The task of alias i: writeBlob of the index manifest under the alias.
SI_Alias(c, i) ==
  /\ call[c].op = "ServeIndex"
  /\ call[c].pc = "aliases"
  /\ i \in 1..Len(call[c].alias)
  /\ call[c].alias[i] = "inflight"
  /\ LET cl == call[c]
         digest == Hash(cl.content.manifest)
     IN \E o \in Outcomes({"store"}) :
          /\ store' = writeBlob(store, cl.also[i], digest, cl.content.manifest,
                                IndexMT, o)
          /\ call' = [call EXCEPT ![c] =
               [cl EXCEPT !.alias[i] = o,
                          !.gerr = GroupErr(cl.gerr,
                                     IF o = "ok" THEN Nil ELSE Err("alias", i, o))]]
          /\ faults' = Spend(o)
  /\ UNCHANGED <<bucket, endpoint, client, wi>>

\* g.Wait() on the alias tasks, then the HEAD headers (Size) or the redirect
\* (r.Method is read only here, so the request's method is drawn here).
SI_Respond(c) ==
  /\ call[c].op = "ServeIndex"
  /\ call[c].pc = "aliases"
  /\ Finished(call[c].alias)
  /\ LET cl == call[c]
     IN IF cl.gerr # Nil
        THEN /\ call' = [call EXCEPT ![c].pc = "done", ![c].ret = cl.gerr]
             /\ UNCHANGED faults
        ELSE \E method \in Methods :
             \E o \in Outcomes(IF method = MethodHead THEN {"Size"} ELSE {}) :
               /\ call' = [call EXCEPT ![c] = Responded(cl, method, IndexMT, o)]
               /\ faults' = Spend(o)
  /\ UNCHANGED <<bucket, endpoint, client, store, wi>>

(* -------------------------------- return ------------------------------- *)
\* The caller has the result of call c and drops it: the slot is free for
\* the next call.
Return(c) ==
  /\ call[c].pc = "done"
  /\ call' = [call EXCEPT ![c] = IdleCall]
  /\ wi' = [wi EXCEPT ![c] = << >>]
  /\ UNCHANGED <<bucket, endpoint, client, store, faults>>

(* --------------------------- the specification -------------------------- *)
\* The tasks one errgroup runs: the layers of an image, the images of an
\* index, the aliases of a call.
MaxTasks == 2

\* No publishing call is in progress.
Quiet == \A c \in DOMAIN call : call[c].pc \in {"idle", "done"}

\* The calls of a run follow one another; WriteObject may run at any moment of
\* a publishing call.
Next ==
  \/ NewStorage
  \/ WriteObject
  \/ \E c \in DOMAIN call :
       \/ Quiet /\ WriteImage(c, Images, Alsos)
       \/ Quiet /\ ServeManifest(c)
       \/ Quiet /\ ServeIndex(c, Indexes, Alsos)
       \/ Return(c)
       \/ SM_Respond(c)
       \/ SI_Manifest(c)
       \/ SI_Respond(c)
       \/ \E i \in 1..MaxTasks : SI_Alias(c, i)
       \/ \E s \in 1..MaxTasks :
            \/ WI_Config(c, s)
            \/ WI_Manifest(c, s)
            \/ WI_Return(c, s)
            \/ \E i \in 1..MaxTasks : WI_Layer(c, s, i) \/ WI_Alias(c, s, i)

Spec == Init /\ [][Next]_vars

\* Two WriteImage calls that run concurrently on a store that starts empty,
\* in an environment that injects no failure.
InitPair ==
  /\ bucket = DefaultBucket
  /\ endpoint \in {env.ENDPOINT : env \in Envs}
  /\ client = TRUE
  /\ store = EmptyStore
  /\ faults = 0
  /\ call = [c \in Concurrent |-> IdleCall]
  /\ wi = [c \in Concurrent |-> << >>]

NextPair ==
  \E c \in DOMAIN call :
    \/ WriteImage(c, PairImages, PairAlsos)
    \/ \E s \in 1..MaxTasks :
         \/ WI_Config(c, s)
         \/ WI_Manifest(c, s)
         \/ WI_Return(c, s)
         \/ \E i \in 1..MaxTasks : WI_Layer(c, s, i) \/ WI_Alias(c, s, i)

SpecPair == InitPair /\ [][NextPair]_vars

\* The steps inside the publishing call of slot c.
Steps(c) ==
  \/ SM_Respond(c)
  \/ SI_Manifest(c)
  \/ SI_Respond(c)
  \/ \E i \in 1..MaxTasks : SI_Alias(c, i)
  \/ \E s \in 1..MaxTasks :
       \/ WI_Config(c, s)
       \/ WI_Manifest(c, s)
       \/ WI_Return(c, s)
       \/ \E i \in 1..MaxTasks : WI_Layer(c, s, i) \/ WI_Alias(c, s, i)

\* The steps inside a ServeIndex call of slot c, whose images have no alias.
IndexSteps(c) ==
  \/ SI_Manifest(c)
  \/ SI_Respond(c)
  \/ \E i \in 1..MaxTasks : SI_Alias(c, i)
  \/ \E s \in 1..MaxTasks :
       \/ WI_Config(c, s)
       \/ WI_Manifest(c, s)
       \/ WI_Return(c, s)
       \/ \E i \in 1..MaxTasks : WI_Layer(c, s, i)

\* One ServeIndex call of an index scenario on a store that starts empty
\* (slot 1), and BlobExists calls that read the store at any moment (slot 2).
InitRead ==
  /\ bucket = DefaultBucket
  /\ endpoint \in {env.ENDPOINT : env \in Envs}
  /\ client = TRUE
  /\ store = EmptyStore
  /\ faults = ReadFaults
  /\ call = [c \in Concurrent |-> IdleCall]
  /\ wi = [c \in Concurrent |-> << >>]

NextRead ==
  \/ ServeIndex(1, ScenarioIndexes, ScenarioAlsos)
  \/ IndexSteps(1)
  \/ BlobExists(2)
  \/ Return(2)

SpecRead == InitRead /\ [][NextRead]_vars

\* Two publishing calls, WriteImage or ServeIndex, that run concurrently with
\* the same alias on a store that starts empty, in an environment that injects
\* no failure.
RaceAlsos == {<<"latest">>}

InitRace ==
  /\ bucket = DefaultBucket
  /\ endpoint \in {env.ENDPOINT : env \in Envs}
  /\ client = TRUE
  /\ store = EmptyStore
  /\ faults = 0
  /\ call = [c \in Concurrent |-> IdleCall]
  /\ wi = [c \in Concurrent |-> << >>]

NextRace ==
  \E c \in DOMAIN call :
    \/ WriteImage(c, Images, RaceAlsos)
    \/ ServeIndex(c, Indexes, RaceAlsos)
    \/ IndexSteps(c)
    \/ \E s, i \in 1..MaxTasks : WI_Alias(c, s, i)

SpecRace == InitRace /\ [][NextRace]_vars

\* One publishing call on a store that starts empty, every store operation
\* and image-model call of which returns: the goroutines of the call are
\* scheduled as long as one of them can take a step.
InitLive ==
  /\ bucket = DefaultBucket
  /\ endpoint \in {env.ENDPOINT : env \in Envs}
  /\ client = TRUE
  /\ store = EmptyStore
  /\ faults = MaxFaults
  /\ call = [c \in Sequential |-> IdleCall]
  /\ wi = [c \in Sequential |-> << >>]

NextLive ==
  \E c \in DOMAIN call :
    \/ WriteImage(c, Images, Alsos)
    \/ ServeManifest(c)
    \/ ServeIndex(c, Indexes, Alsos)
    \/ Steps(c)

Progress == \E c \in Sequential : Steps(c)

SpecLive == InitLive /\ [][NextLive]_vars /\ WF_vars(Progress)

(* ======================================================================= *)
(* Properties                                                              *)
(* ======================================================================= *)
Failed(status) == status \notin {"none", "inflight", "ok"}
Issued(status) == status # "none"
AllOk(tasks) == \A i \in 1..Len(tasks) : tasks[i] = "ok"
AnyIssued(tasks) == \E i \in 1..Len(tasks) : Issued(tasks[i])
ServeOps == {"ServeManifest", "ServeIndex"}

\* C1: within a WriteImage execution the manifest write (under the digest key
\* or an alias key) is issued only after the config write and every layer
\* write of that execution succeeded; after a failed config or layer write no
\* manifest write is ever issued.
C1_ManifestAfterBlobs ==
  \A c \in DOMAIN wi : \A s \in 1..Len(wi[c]) :
    LET inst == wi[c][s]
    IN (Issued(inst.man) \/ AnyIssued(inst.alias))
         => (inst.cfg = "ok" /\ AllOk(inst.layer))

\* C1 witness: a manifest was written after both layers of a two-layer image.
C1_Witness ==
  \E c \in DOMAIN wi : \E s \in 1..Len(wi[c]) :
    /\ wi[c][s].man = "ok"
    /\ Len(wi[c][s].layer) = 2
    /\ AllOk(wi[c][s].layer)

\* C2: ServeIndex writes the index manifest (under its digest or an alias)
\* only after WriteImage returned nil for every image of the index; once an
\* image task has failed the index manifest is never written by that call.
C2_IndexAfterImages ==
  \A c \in DOMAIN call :
    (call[c].op = "ServeIndex" /\ (Issued(call[c].man) \/ AnyIssued(call[c].alias)))
      => \A s \in 1..Len(wi[c]) : wi[c][s].pc = "done" /\ wi[c][s].ret = Nil

\* C2 witness: an index manifest was written after its two images.
C2_Witness ==
  \E c \in DOMAIN call :
    /\ call[c].op = "ServeIndex"
    /\ call[c].man = "ok"
    /\ Len(wi[c]) = 2

\* C3: a WriteImage execution in which a layer task failed returns a non-nil
\* error, and that error is the error of one of its failed layer tasks.
C3_LayerErrorReturned ==
  \A c \in DOMAIN wi : \A s \in 1..Len(wi[c]) :
    LET inst == wi[c][s]
    IN (inst.pc = "done" /\ \E i \in 1..Len(inst.layer) : Failed(inst.layer[i]))
         => /\ inst.ret # Nil
            /\ inst.ret.task = "layer"
            /\ inst.ret.idx \in 1..Len(inst.layer)
            /\ Failed(inst.layer[inst.ret.idx])
            /\ inst.ret.kind = inst.layer[inst.ret.idx]

\* C3 witness: WriteImage returned after one layer write failed and its
\* sibling succeeded.
C3_Witness ==
  \E c \in DOMAIN wi : \E s \in 1..Len(wi[c]) :
    /\ wi[c][s].pc = "done"
    /\ \E i, j \in 1..Len(wi[c][s].layer) :
         wi[c][s].layer[i] = "ok" /\ Failed(wi[c][s].layer[j])

\* C4: a ServeManifest or ServeIndex call that returns an error has written
\* nothing to the response writer: no status, no header, no body.
C4_NoResponseOnError ==
  \A c \in DOMAIN call :
    (call[c].op \in ServeOps /\ call[c].ret # Nil) => call[c].resp = NoResponse

\* C4 witness: a HEAD request failed at Size, the last call before the headers.
C4_Witness ==
  \E c \in DOMAIN call :
    /\ call[c].op \in ServeOps
    /\ call[c].pc = "done"
    /\ call[c].ret = Err("Size", 0, "model")

\* The digest string, media type and size a call's content has.
DigestOf(cl) == HashString(Hash(cl.content.manifest))
MediaTypeOf(cl) == IF cl.op = "ServeIndex" THEN IndexMT ELSE ManifestMT
SizeOf(cl) == Len(cl.content.manifest)
Succeeded(cl) == cl.op \in ServeOps /\ cl.pc = "done" /\ cl.ret = Nil

\* C5: a serve call that succeeded for content of digest D, media type T and
\* size S answered a HEAD request with exactly the headers
\* Docker-Content-Digest=D, Content-Type=T, Content-Length=S, no status and no
\* body, and any other request with a 303 redirect to the URL of the store
\* key blobs/D, a key that is in the store.
C5_HeadAndRedirect ==
  \A c \in DOMAIN call :
    LET cl == call[c]
    IN Succeeded(cl) =>
         IF cl.method = MethodHead
         THEN /\ cl.resp.headers =
                   {<<"Docker-Content-Digest", DigestOf(cl)>>,
                    <<"Content-Type", MediaTypeOf(cl)>>,
                    <<"Content-Length", ToString(SizeOf(cl))>>}
              /\ cl.resp.code = 0
              /\ ~cl.resp.body
         ELSE /\ cl.resp.code = 303
              /\ <<"Location", "https://" \o bucket \o "." \o endpoint \o "/"
                                 \o BlobKey(DigestOf(cl))>> \in cl.resp.headers
              /\ \A h \in cl.resp.headers : h[1] = "Location" =>
                   h[2] = "https://nydus-demo.oss.example.com/blobs/" \o DigestOf(cl)
              /\ BlobKey(DigestOf(cl)) \in DOMAIN store

\* C5 witness: a GET request for an index was answered with a redirect.
C5_Witness ==
  \E c \in DOMAIN call :
    /\ Succeeded(call[c])
    /\ call[c].op = "ServeIndex"
    /\ call[c].method = MethodGet
    /\ call[c].resp.code = 303

\* C5 witness of the other branch: a HEAD request for an image was answered.
C5_WitnessHead ==
  \E c \in DOMAIN call :
    /\ Succeeded(call[c])
    /\ call[c].op = "ServeManifest"
    /\ call[c].method = MethodHead
    /\ call[c].resp.headers # {}

\* Every store write of one WriteImage execution was made and succeeded.
ImageWritten(inst) ==
  /\ inst.pc = "done"
  /\ inst.ret = Nil
  /\ inst.cfg = "ok"
  /\ AllOk(inst.layer)
  /\ inst.man = "ok"
  /\ AllOk(inst.alias)

\* C6: a serve call has emitted a response only if every store write of the
\* call (config, layers, manifests, the index manifest, every alias) was made
\* by this call and succeeded, none is in flight, and the key of the manifest
\* the response points at is in the store.
C6_ResponseAfterWrites ==
  \A c \in DOMAIN call :
    LET cl == call[c]
    IN (cl.op \in ServeOps /\ cl.resp # NoResponse) =>
         /\ wi[c] # << >>
         /\ \A s \in 1..Len(wi[c]) : ImageWritten(wi[c][s])
         /\ cl.op = "ServeManifest" =>
              /\ wi[c][1].img = cl.content
              /\ Len(wi[c][1].alias) = Len(cl.also)
         /\ cl.op = "ServeIndex" =>
              /\ Len(wi[c]) = Len(cl.content.images)
              /\ cl.man = "ok"
              /\ Len(cl.alias) = Len(cl.also)
              /\ AllOk(cl.alias)
         /\ BlobKey(DigestOf(cl)) \in DOMAIN store

\* C6 witness: a response was emitted by a call that wrote two aliases.
C6_Witness ==
  \E c \in DOMAIN call :
    /\ call[c].op \in ServeOps
    /\ call[c].resp # NoResponse
    /\ Len(call[c].also) = 2

(* ------------------ one run of WriteImage, as a function ---------------- *)
\* The store after the writeBlob calls of names[1..n] for the same bytes.
RECURSIVE WriteNames(_, _, _, _, _, _)
WriteNames(st, names, n, h, bytes, mt) ==
  IF n = 0 THEN st
  ELSE writeBlob(WriteNames(st, names, n - 1, h, bytes, mt),
                 names[n], h, bytes, mt, "ok")

\* The store after the writeBlob calls of layers[1..n].
RECURSIVE WriteLayers(_, _, _)
WriteLayers(st, layers, n) ==
  IF n = 0 THEN st
  ELSE writeBlob(WriteLayers(st, layers, n - 1), HashString(Hash(layers[n])),
                 Hash(layers[n]), layers[n], LayerMT, "ok")

\* The store one failure-free WriteImage(img, also...) alone leaves behind,
\* its writes taken in program order.
OnceStore(st, img, also) ==
  LET ch == Hash(img.config)
      digest == Hash(img.manifest)
      s1 == writeBlob(st, HashString(ch), ch, img.config, ConfigContentType, "ok")
      s2 == WriteLayers(s1, img.layers, Len(img.layers))
      s3 == writeBlob(s2, HashString(digest), digest, img.manifest, ManifestMT, "ok")
  IN WriteNames(s3, also, Len(also), digest, img.manifest, ManifestMT)

Other(c) == CHOOSE d \in Concurrent : d # c
DoneCall(c) == call[c].op = "WriteImage" /\ call[c].pc = "done"
Alone(c) == DoneCall(c) /\ call[Other(c)].op = "idle"
Twice(c) ==
  /\ DoneCall(c) /\ DoneCall(Other(c))
  /\ call[c].content = call[Other(c)].content
  /\ call[c].also = call[Other(c)].also

\* C7: with no failures, two WriteImage calls on the same image and aliases,
\* in any interleaving, both return nil and leave the store as one call
\* alone leaves it.
C7_Idempotent ==
  \A c \in DOMAIN call :
    (Alone(c) \/ Twice(c)) =>
      /\ call[c].ret = Nil
      /\ store = OnceStore(EmptyStore, call[c].content, call[c].also)

\* C7 witness: both calls wrote the same two-layer image under two aliases
\* and have returned.
C7_Witness ==
  \E c \in DOMAIN call :
    /\ Twice(c)
    /\ Len(call[c].content.layers) = 2
    /\ call[c].also = <<"latest", "stable">>

\* The keys WriteImage(img, also...) writes.
ImageKeys(img, also) ==
  {BlobKey(HashString(Hash(img.config))), BlobKey(HashString(Hash(img.manifest)))}
    \cup {BlobKey(HashString(Hash(img.layers[i]))) : i \in 1..Len(img.layers)}
    \cup {BlobKey(also[i]) : i \in 1..Len(also)}

\* C10 as stated: on an empty store and with no failures, WriteImage on an
\* image of N layers with A aliases ends with exactly N+2+A store entries.
C10_Original ==
  \A c \in DOMAIN call :
    Alone(c) =>
      Cardinality(DOMAIN store)
        = Len(call[c].content.layers) + 2 + Len(call[c].also)

\* C10 amended: it ends with one entry per distinct key among the config
\* digest, the layer digests, the manifest digest and the alias names (N+2+A
\* entries when no two of them coincide): the manifest bytes under its digest
\* and under each alias, the config and each layer under its digest unless an
\* alias has that name.
C10_OneEntryPerKey ==
  \A c \in DOMAIN call :
    Alone(c) =>
      LET img == call[c].content
          also == call[c].also
          aliasKeys == {BlobKey(also[i]) : i \in 1..Len(also)}
          HasBytes(k, b) == k \in DOMAIN store /\
                            (store[k].bytes = b \/ k \in aliasKeys)
      IN /\ DOMAIN store = ImageKeys(img, also)
         /\ Cardinality(ImageKeys(img, also)) = Len(img.layers) + 2 + Len(also)
              => Cardinality(DOMAIN store) = Len(img.layers) + 2 + Len(also)
         /\ \A k \in aliasKeys \cup {BlobKey(HashString(Hash(img.manifest)))} :
              store[k].bytes = img.manifest
         /\ HasBytes(BlobKey(HashString(Hash(img.config))), img.config)
         /\ \A i \in 1..Len(img.layers) :
              HasBytes(BlobKey(HashString(Hash(img.layers[i]))), img.layers[i])

\* C10 witness: a two-layer image written under two aliases: six entries.
C10_Witness ==
  \E c \in DOMAIN call :
    /\ Alone(c)
    /\ Len(call[c].content.layers) = 2
    /\ call[c].also = <<"latest", "stable">>
    /\ Cardinality(DOMAIN store) = 6

\* The keys of the names callers pass as aliases.
AliasKeys ==
  UNION {{BlobKey(a[i]) : i \in 1..Len(a)} : a \in Alsos \cup PairAlsos}

\* C8 as stated: every stored object carries digest metadata equal to the
\* hash of its bytes, and its key is the string form of that digest unless
\* the key is an alias name.
C8_DigestConsistency ==
  \A k \in DOMAIN store :
    /\ store[k].metaDigest = <<HashString(Hash(store[k].bytes))>>
    /\ k = BlobKey(HashString(Hash(store[k].bytes))) \/ k \in AliasKeys

\* The keys that are the string form of the digest of some content.
DigestKeys ==
  {BlobKey(HashString(Hash(b))) :
     b \in UNION {{img.config, img.manifest} \cup
                    {img.layers[i] : i \in 1..Len(img.layers)} : img \in PairImages}
           \cup {idx.manifest : idx \in Indexes}}

\* C9 as stated: an object under a digest key is immutable: no step removes
\* the key or changes its bytes or metadata.
C9_DigestKeysImmutable ==
  [][\A k \in (DOMAIN store) \cap DigestKeys :
       k \in DOMAIN store' /\ store'[k] = store[k]]_vars

\* The ServeIndex call of slot 1 has returned nil: nothing failed in it.
Published == call[1].op = "ServeIndex" /\ call[1].pc = "done" /\ call[1].ret = Nil

\* The names ServeIndex(idx, also...) writes under.
IndexNames(idx, also) ==
  {HashString(Hash(idx.manifest))} \cup {also[i] : i \in 1..Len(also)}
    \cup UNION {{HashString(Hash(idx.images[s].config)),
                 HashString(Hash(idx.images[s].manifest))}
                  \cup {HashString(Hash(idx.images[s].layers[i])) :
                          i \in 1..Len(idx.images[s].layers)} :
                s \in 1..Len(idx.images)}

\* The scenario of C11: an image of one layer, an image of two, alias "latest".
IsScenario(cl) ==
  /\ Len(cl.content.images) = 2
  /\ Len(cl.content.images[1].layers) = 1
  /\ Len(cl.content.images[2].layers) = 2
  /\ cl.also = <<"latest">>

\* C11 as stated: on an empty store and with no failures, ServeIndex of an
\* index of image A (1 layer) and image B (2 layers) with alias "latest" ends
\* with exactly 9 store entries.
C11_Original ==
  (Published /\ IsScenario(call[1])) => Cardinality(DOMAIN store) = 9

\* C11 amended: it ends with one entry per distinct name among the blobs of A,
\* the blobs of B, the index manifest digest and "latest" (9 entries when no
\* two of them coincide), the index manifest bytes under its digest and under
\* "latest", and BlobExists finds each entry.
C11_ScenarioEntries ==
  (Published /\ IsScenario(call[1])) =>
    LET idx == call[1].content
        names == IndexNames(idx, call[1].also)
        idxObj == BlobObject(idx.manifest, Hash(idx.manifest), IndexMT)
    IN /\ DOMAIN store = {BlobKey(n) : n \in names}
       /\ Cardinality(names) = 9 => Cardinality(DOMAIN store) = 9
       /\ store[BlobKey(HashString(Hash(idx.manifest)))] = idxObj
       /\ store[BlobKey("latest")] = idxObj
       /\ \A n \in names :
            LET res == BlobExistsResult(store, n, "ok")
            IN /\ res.err = Nil
               /\ res.desc.Size = Len(store[BlobKey(n)].bytes)
               /\ res.desc.Digest = Hash(store[BlobKey(n)].bytes)

\* C11 witness: the scenario with nine distinct names was published.
C11_Witness ==
  /\ Published
  /\ IsScenario(call[1])
  /\ Cardinality(DOMAIN store) = 9

\* The alias tasks that failed.
FailedAliases(alias) == {i \in 1..Len(alias) : Failed(alias[i])}

\* C12: when the write of the manifest under some alias failed, WriteImage
\* returns the error of a failed alias write, although the manifest was
\* written under its digest and other aliases were written; ServeManifest and
\* a direct WriteImage call return that error, and so does ServeIndex for the
\* aliases of the index manifest.
C12_AliasErrorReturned ==
  /\ \A c \in DOMAIN wi : \A s \in 1..Len(wi[c]) :
       LET inst == wi[c][s]
       IN (inst.pc = "done" /\ FailedAliases(inst.alias) # {})
            => /\ inst.man = "ok"
               /\ inst.ret.task = "alias"
               /\ inst.ret.idx \in FailedAliases(inst.alias)
               /\ call[c].pc = "done" => call[c].ret = inst.ret
  /\ \A c \in DOMAIN call :
       (call[c].op = "ServeIndex" /\ call[c].pc = "done"
          /\ FailedAliases(call[c].alias) # {})
         => /\ call[c].man = "ok"
            /\ call[c].ret.task = "alias"
            /\ call[c].ret.idx \in FailedAliases(call[c].alias)

\* C12 witness: a ServeManifest call has returned after one alias write
\* failed and the other succeeded, the manifest being written under its digest.
C12_Witness ==
  \E c \in DOMAIN call :
    /\ call[c].op = "ServeManifest"
    /\ call[c].pc = "done"
    /\ wi[c][1].man = "ok"
    /\ \E i, j \in 1..Len(wi[c][1].alias) :
         Failed(wi[c][1].alias[i]) /\ wi[c][1].alias[j] = "ok"

\* C13: the redirect target Blob computes for a digest is the same in every
\* state of a run: no step, NewStorage included, changes it.
C13_BlobDeterministic ==
  [][\A name \in ExistsNames :
       BlobURL(bucket', endpoint', name) = BlobURL(bucket, endpoint, name)]_vars

\* The object a successful publishing call writes under the digest of its
\* manifest and under each alias.
ManifestObject(cl) ==
  BlobObject(cl.content.manifest, Hash(cl.content.manifest), MediaTypeOf(cl))

\* Two calls that published different manifests under a common alias, both
\* with success.
Raced(c, d) ==
  /\ c # d
  /\ call[c].op \in {"WriteImage", "ServeIndex"}
  /\ call[d].op \in {"WriteImage", "ServeIndex"}
  /\ call[c].pc = "done" /\ call[c].ret = Nil
  /\ call[d].pc = "done" /\ call[d].ret = Nil
  /\ call[c].content.manifest # call[d].content.manifest
  /\ \E i \in 1..Len(call[c].also), j \in 1..Len(call[d].also) :
       call[c].also[i] = call[d].also[j]

\* C14: after two concurrent publishing calls with different manifests and a
\* common alias both succeeded, the alias key holds the whole object of one of
\* the two writers (bytes, media type and digest metadata of the same writer,
\* the metadata digest being the hash of the bytes), and the manifests of both
\* are in the store under their digests.
C14_AliasOneWriter ==
  \A c, d \in DOMAIN call :
    Raced(c, d) =>
      /\ \A i \in 1..Len(call[c].also), j \in 1..Len(call[d].also) :
           call[c].also[i] = call[d].also[j] =>
             LET key == BlobKey(call[c].also[i])
             IN /\ key \in DOMAIN store
                /\ store[key] \in {ManifestObject(call[c]), ManifestObject(call[d])}
                /\ store[key].metaDigest = <<HashString(Hash(store[key].bytes))>>
      /\ \A e \in {c, d} :
           /\ BlobKey(DigestOf(call[e])) \in DOMAIN store
           /\ store[BlobKey(DigestOf(call[e]))] = ManifestObject(call[e])

\* C14 witness: a WriteImage and a ServeIndex raced on "latest", and the
\* alias holds the manifest of the image.
C14_Witness ==
  \E c, d \in DOMAIN call :
    /\ Raced(c, d)
    /\ call[c].op = "WriteImage"
    /\ call[d].op = "ServeIndex"
    /\ store[BlobKey("latest")] = ManifestObject(call[c])

\* A step in which slot c calls BlobExists and the store answers.
BlobExistsStep(c) ==
  call[c].op = "idle" /\ call'[c].op = "BlobExists" /\ faults' = faults

\* C15: BlobExists(name) leaves the store as it is; for a key written by
\* writeBlob(name, digest, mediaType, content) it returns the descriptor
\* (digest, mediaType, length of content) and no error, and for a key that is
\* not in the store it returns a not-found error and the zero descriptor.
C15_BlobExistsRoundTrip ==
  [][\A c \in DOMAIN call :
       BlobExistsStep(c) =>
         LET name == call'[c].content.name
             key == BlobKey(name)
         IN /\ store' = store
            /\ key \in DOMAIN store =>
                 /\ call'[c].ret = Nil
                 /\ call'[c].desc = [Digest |-> Hash(store[key].bytes),
                                     MediaType |-> store[key].contentType,
                                     Size |-> Len(store[key].bytes)]
                 /\ store[key] = BlobObject(store[key].bytes, call'[c].desc.Digest,
                                            call'[c].desc.MediaType)
            /\ key \notin DOMAIN store =>
                 /\ call'[c].ret = Err("GetObjectDetailedMeta", 0, "notfound")
                 /\ call'[c].desc = NoDescriptor]_vars

\* C15 witness: BlobExists("latest") returned the descriptor of the index
\* manifest that ServeIndex wrote under that alias.
C15_Witness ==
  \E c \in DOMAIN call :
    /\ call[c].op = "BlobExists"
    /\ call[c].content.name = "latest"
    /\ call[c].ret = Nil
    /\ call[c].desc.Size > 0
    /\ BlobKey("latest") \in DOMAIN store
    /\ call[c].desc.Digest = Hash(store[BlobKey("latest")].bytes)

InFlight(tasks) == \E i \in 1..Len(tasks) : tasks[i] = "inflight"

\* C16: once WriteImage has returned, with nil or with an error, none of its
\* layer writes and alias writes is in flight; once ServeIndex has returned,
\* every WriteImage it launched has returned and none of its alias writes is
\* in flight.
C16_NothingInFlightAtReturn ==
  /\ \A c \in DOMAIN wi : \A s \in 1..Len(wi[c]) :
       wi[c][s].pc = "done" => ~InFlight(wi[c][s].layer) /\ ~InFlight(wi[c][s].alias)
  /\ \A c \in DOMAIN call :
       (call[c].op \in {"WriteImage", "ServeIndex"} /\ call[c].pc = "done")
         => /\ \A s \in 1..Len(wi[c]) : wi[c][s].pc = "done"
            /\ ~InFlight(call[c].alias)

\* C16 witness: a ServeIndex call returned an error after a layer write of its
\* two-layer image failed, the other layer write having finished.
C16_Witness ==
  \E c \in DOMAIN call :
    /\ call[c].op = "ServeIndex"
    /\ call[c].pc = "done"
    /\ call[c].ret # Nil
    /\ \E s \in 1..Len(wi[c]) :
         /\ Len(wi[c][s].layer) = 2
         /\ \E i, j \in 1..2 : Failed(wi[c][s].layer[i]) /\ wi[c][s].layer[j] = "ok"

Running(c) == call[c].pc \notin {"idle", "done"}

\* Every task of a returned call that was launched has run to its own end.
SiblingsCompleted(c) ==
  /\ ~InFlight(call[c].alias)
  /\ \A s \in 1..Len(wi[c]) :
       /\ wi[c][s].pc = "done"
       /\ \A i \in 1..Len(wi[c][s].layer) :
            wi[c][s].cfg = "ok" /\ wi[c][s].ret.task # "Layers"
              => wi[c][s].layer[i] \notin {"none", "inflight"}
       /\ \A i \in 1..Len(wi[c][s].alias) :
            wi[c][s].man = "ok" => wi[c][s].alias[i] \notin {"none", "inflight"}

\* C17: under fair scheduling of its goroutines every WriteImage,
\* ServeManifest and ServeIndex call returns, also when a sibling write fails;
\* at the return every launched sibling of a failed write has run to its own
\* success or failure.
C17_CallsReturn ==
  /\ \A c \in Sequential : Running(c) ~> (call[c].pc = "done")
  /\ [](\A c \in Sequential : call[c].pc = "done" => SiblingsCompleted(c))

\* C17 witness: a WriteImage call returned an error after the write of one
\* layer failed, the write of the other layer having succeeded after it.
C17_Witness ==
  \E c \in Sequential :
    /\ call[c].op = "WriteImage"
    /\ call[c].pc = "done"
    /\ call[c].ret = Err("layer", 1, "store")
    /\ wi[c][1].layer = <<"store", "ok">>

\* The errors of WriteImage before its layers: ConfigName, RawConfigFile and
\* the writeBlob of the config.
ConfigErrors == {Err("ConfigName", 0, "model"), Err("RawConfigFile", 0, "model"),
                 Err("config", 0, "store")}

\* C18: a WriteImage whose config name, config bytes or config write failed
\* returns that error in the same step, which leaves the store unchanged, and
\* has launched no layer write, no manifest write and no alias write.
C18_ConfigErrorStops ==
  /\ [](\A c \in Sequential : \A s \in 1..Len(wi[c]) :
          LET inst == wi[c][s]
          IN (inst.cfg = "store" \/ (inst.pc = "done" /\ inst.ret \in ConfigErrors))
               => /\ inst.pc = "done"
                  /\ inst.ret \in ConfigErrors
                  /\ inst.cfg = "store" <=> inst.ret = Err("config", 0, "store")
                  /\ \A i \in 1..Len(inst.layer) : inst.layer[i] = "none"
                  /\ inst.man = "none"
                  /\ \A i \in 1..Len(inst.alias) : inst.alias[i] = "none")
  /\ [][\A c \in Sequential : \A s \in 1..Len(wi[c]) :
          (Len(wi'[c]) = Len(wi[c]) /\ wi[c][s].pc = "start"
             /\ wi'[c][s].pc = "done" /\ wi'[c][s].ret \in ConfigErrors)
            => store' = store]_vars

\* C18 witness: a WriteImage call of a two-layer image with aliases returned
\* the error of its config write.
C18_Witness ==
  \E c \in Sequential :
    /\ call[c].op = "WriteImage"
    /\ call[c].pc = "done"
    /\ call[c].ret = Err("config", 0, "store")
    /\ wi[c][1].cfg = "store"
    /\ Len(wi[c][1].layer) = 2
    /\ Len(wi[c][1].alias) = 2

\* C19: within a WriteImage or ServeIndex call an alias write is launched only
\* after the write of the manifest under its digest succeeded, and never after
\* it failed; when an alias write of the call has succeeded an object is
\* stored under the digest of the call's manifest.
C19_AliasAfterDigest ==
  /\ \A c \in DOMAIN wi : \A s \in 1..Len(wi[c]) :
       LET inst == wi[c][s]
       IN /\ AnyIssued(inst.alias) => inst.man = "ok"
          /\ (\E i \in 1..Len(inst.alias) : inst.alias[i] = "ok")
               => BlobKey(HashString(Hash(inst.img.manifest))) \in DOMAIN store
  /\ \A c \in DOMAIN call :
       call[c].op = "ServeIndex" =>
         /\ AnyIssued(call[c].alias) => call[c].man = "ok"
         /\ (\E i \in 1..Len(call[c].alias) : call[c].alias[i] = "ok")
              => BlobKey(DigestOf(call[c])) \in DOMAIN store

\* C19 witness: the digest-keyed manifest write of a WriteImage with two
\* aliases failed, and the call returned with no alias write launched.
C19_Witness ==
  \E c \in DOMAIN wi : \E s \in 1..Len(wi[c]) :
    /\ wi[c][s].man = "store"
    /\ wi[c][s].pc = "done"
    /\ wi[c][s].alias = <<"none", "none">>

\* C20: ServeIndex gives its aliases to no WriteImage of an image of the
\* index; every write it makes under an alias key stores the index manifest,
\* and after its success every alias key holds the index manifest bytes with
\* the index digest and media type.
C20_AliasesForIndexOnly ==
  /\ [](\A c \in Sequential :
          call[c].op = "ServeIndex" =>
            /\ \A s \in 1..Len(wi[c]) : wi[c][s].also = << >>
            /\ (call[c].pc = "done" /\ call[c].ret = Nil) =>
                 \A i \in 1..Len(call[c].also) :
                   /\ BlobKey(call[c].also[i]) \in DOMAIN store
                   /\ store[BlobKey(call[c].also[i])] = ManifestObject(call[c]))
  /\ [][\A c \in Sequential :
          (call[c].op = "ServeIndex" /\ call'[c].op = "ServeIndex") =>
            \A i \in 1..Len(call[c].also) :
              LET key == BlobKey(call[c].also[i])
              IN (key \in DOMAIN store'
                    /\ (key \notin DOMAIN store \/ store'[key] # store[key]))
                   => store'[key] = ManifestObject(call[c])]_vars

\* C20 witness: ServeIndex with aliases "latest" and "stable" succeeded and
\* "stable" holds the index manifest.
C20_Witness ==
  \E c \in Sequential :
    /\ call[c].op = "ServeIndex"
    /\ call[c].pc = "done"
    /\ call[c].ret = Nil
    /\ call[c].also = <<"latest", "stable">>
    /\ store[BlobKey("stable")].bytes = call[c].content.manifest
====
